---- MODULE Spec2Model ----
(***************************************************************************)
(* Model of the planning-poker room server (src/server.js): the in-memory  *)
(* room directory, the room objects built by the createRoom factory, the   *)
(* Socket.IO broadcast groups, and one action per socket event handler.    *)
(* Each action also records the intent it handled and the events it        *)
(* emitted, so that properties over replies and broadcasts can be stated.  *)
(***************************************************************************)
EXTENDS Integers, Sequences, FiniteSets, TLC

\* ------------------------------------------------------------------ bounds
MaxSteps == 4            \* intents counted by steps; SpecRooms stops there

\* ------------------------------------------------------------- input sets
Sockets == {1, 2, 3}                    \* socket.id of the connections
Codes   == {"ABCD", "WXYZ"}             \* room codes (keys of the Map)
OneCode == {"ABCD"}                     \* the code used under Spec
Names   == {"Alice", "Bob", "Carol"}
NULL    == "null"                       \* JavaScript null (vote / votes)
Tokens  == {"5", "?"}                   \* non-null vote tokens
Votes   == Tokens \cup {NULL}
VOTED   == "voted"                      \* getState's has-voted marker
NoSocket == 0                           \* socketId: null of the factory
NoRoom  == [admin |-> "", players |-> <<>>, revealed |-> FALSE, exists |-> FALSE]
WireTokens == {"3", "5", "?", "abc", ""}  \* vote strings a client may send
NoAverage  == [kind |-> "empty", tenths |-> 0]   \* nothing displayed yet

VARIABLES
    rooms,      \* the Map: code -> room object (NoRoom when the key is absent)
    order,      \* the Map's key order (insertion order), used by forEach
    members,    \* Socket.IO groups: code -> set of sockets joined to it
    connected,  \* sockets whose connection is still open
    last,       \* the intent (or, on a client, the event) handled by the last step
    out,        \* the events emitted by the last step, in emission order
    steps,      \* intents handled so far, counted up to MaxSteps
    average     \* a client's average display (averageSpan.textContent)

vars == <<rooms, order, members, connected, last, out, steps, average>>

\* ------------------------------------------------------- sequence helpers
\* Array.prototype.findIndex: least index satisfying the test, 0 for -1.
FindIndexBySocket(players, socketId) ==
    IF \E i \in DOMAIN players : players[i].socketId = socketId
    THEN CHOOSE i \in DOMAIN players :
            /\ players[i].socketId = socketId
            /\ \A j \in 1 .. (i - 1) : players[j].socketId # socketId
    ELSE 0

\* Array.prototype.find by name: least index with that name, 0 if none.
FindIndexByName(players, name) ==
    IF \E i \in DOMAIN players : players[i].name = name
    THEN CHOOSE i \in DOMAIN players :
            /\ players[i].name = name
            /\ \A j \in 1 .. (i - 1) : players[j].name # name
    ELSE 0

\* Array.prototype.splice(index, 1)
Splice(seq, index) ==
    [i \in 1 .. (Len(seq) - 1) |-> IF i < index THEN seq[i] ELSE seq[i + 1]]

\* ---------------------------------------------------------- room factory
\* Variant of the factory that starts with the cards shown.
CreateRoomObjRevealed(admin) ==
    [admin    |-> admin,
     players  |-> << [name |-> admin, vote |-> NULL, socketId |-> NoSocket] >>,
     revealed |-> TRUE,
     exists   |-> TRUE]

\* createRoom(code, admin): the admin is the sole player, no socket yet.
CreateRoomObj(admin) ==
    [admin    |-> admin,
     players  |-> << [name |-> admin, vote |-> NULL, socketId |-> NoSocket] >>,
     revealed |-> FALSE,
     exists   |-> TRUE]

\* Variant of addPlayer whose rebind also clears the player's vote.
AddPlayerRebindClearsVote(room, name, socketId) ==
    LET i == FindIndexByName(room.players, name) IN
    IF i # 0
    THEN [room EXCEPT !.players[i].socketId = socketId, !.players[i].vote = NULL]
    ELSE [room EXCEPT !.players =
            Append(@, [name |-> name, vote |-> NULL, socketId |-> socketId])]

\* Variant of addPlayer whose rebind moves the entry to the end.
AddPlayerRebindMovesToEnd(room, name, socketId) ==
    LET i == FindIndexByName(room.players, name) IN
    IF i # 0
    THEN [room EXCEPT !.players =
            Append(Splice(@, i), [room.players[i] EXCEPT !.socketId = socketId])]
    ELSE [room EXCEPT !.players =
            Append(@, [name |-> name, vote |-> NULL, socketId |-> socketId])]

\* Variant of addPlayer that puts a new entry at the front (unshift).
AddPlayerUnshift(room, name, socketId) ==
    LET i == FindIndexByName(room.players, name) IN
    IF i # 0
    THEN [room EXCEPT !.players[i].socketId = socketId]
    ELSE [room EXCEPT !.players =
            << [name |-> name, vote |-> NULL, socketId |-> socketId] >> \o @]

\* Variant of addPlayer that pushes without looking for the name.
AddPlayerAlwaysPush(room, name, socketId) ==
    [room EXCEPT !.players =
        Append(@, [name |-> name, vote |-> NULL, socketId |-> socketId])]

\* room.addPlayer(name, socketId)
AddPlayer(room, name, socketId) ==
    LET i == FindIndexByName(room.players, name) IN
    IF i # 0
    THEN [room EXCEPT !.players[i].socketId = socketId]
    ELSE [room EXCEPT !.players =
            Append(@, [name |-> name, vote |-> NULL, socketId |-> socketId])]

\* Variant of removePlayer that never reports the admin.
RemovePlayerNeverAdmin(room, socketId) ==
    LET index == FindIndexBySocket(room.players, socketId) IN
    IF index > 0
    THEN [room   |-> [room EXCEPT !.players = Splice(@, index)],
          result |-> [removed |-> TRUE, wasAdmin |-> FALSE]]
    ELSE [room   |-> room,
          result |-> [removed |-> FALSE, wasAdmin |-> FALSE]]

\* room.removePlayer(socketId): the room afterwards and the returned object.
RemovePlayer(room, socketId) ==
    LET index == FindIndexBySocket(room.players, socketId) IN
    IF index > 0
    THEN [room   |-> [room EXCEPT !.players = Splice(@, index)],
          result |-> [removed  |-> TRUE,
                      wasAdmin |-> room.players[index].name = room.admin]]
    ELSE [room   |-> room,
          result |-> [removed |-> FALSE, wasAdmin |-> FALSE]]

\* Variant of setVote that stores the vote on every non-admin player.
SetVoteForAll(room, name, vote) ==
    LET i == FindIndexByName(room.players, name) IN
    IF i # 0 /\ room.players[i].name # room.admin
    THEN [room   |-> [room EXCEPT !.players =
                        [k \in DOMAIN room.players |->
                           IF room.players[k].name # room.admin
                           THEN [room.players[k] EXCEPT !.vote = vote]
                           ELSE room.players[k]]],
          result |-> TRUE]
    ELSE [room |-> room, result |-> FALSE]

\* Variant of setVote that hides the cards again when a vote is stored.
SetVoteHidesCards(room, name, vote) ==
    LET i == FindIndexByName(room.players, name) IN
    IF i # 0 /\ room.players[i].name # room.admin
    THEN [room   |-> [room EXCEPT !.players[i].vote = vote, !.revealed = FALSE],
          result |-> TRUE]
    ELSE [room |-> room, result |-> FALSE]

\* room.setVote(name, vote): the room afterwards and the returned boolean.
SetVote(room, name, vote) ==
    LET i == FindIndexByName(room.players, name) IN
    IF i # 0 /\ room.players[i].name # room.admin
    THEN [room |-> [room EXCEPT !.players[i].vote = vote], result |-> TRUE]
    ELSE [room |-> room, result |-> FALSE]

\* Indices of the non-admin players, as filter(p => p.name !== this.admin).
NonAdminIdx(room) ==
    {i \in DOMAIN room.players : room.players[i].name # room.admin}

\* The votes object built by forEach: later entries overwrite earlier ones.
RECURSIVE VotesUpTo(_, _)
VotesUpTo(room, n) ==
    IF n = 0 THEN << >>
    ELSE LET prev == VotesUpTo(room, n - 1)
             p    == room.players[n]
         IN  IF p.name # room.admin
             THEN [k \in (DOMAIN prev) \cup {p.name} |->
                      IF k = p.name THEN p.vote ELSE prev[k]]
             ELSE prev

\* Variant of getVotes that does not leave the admin's entry out.
GetVotesWithAdmin(room) ==
    [n \in {room.players[i].name : i \in DOMAIN room.players} |->
        room.players[FindIndexByName(room.players, n)].vote]

\* room.getVotes()
GetVotes(room) == VotesUpTo(room, Len(room.players))

\* Variant of the allVoted test without the length check.
AllVotedVacuous(room) ==
    \A i \in NonAdminIdx(room) : room.players[i].vote # NULL

\* The allVoted test of room.revealCards().
AllVoted(room) ==
    /\ Cardinality(NonAdminIdx(room)) > 0
    /\ \A i \in NonAdminIdx(room) : room.players[i].vote # NULL

\* Variant of revealCards that fills every missing vote with "?" and reveals.
RevealCardsBackFill(room) ==
    LET filled == [room EXCEPT
                     !.revealed = TRUE,
                     !.players  = [i \in DOMAIN room.players |->
                                     IF /\ room.players[i].name # room.admin
                                        /\ room.players[i].vote = NULL
                                     THEN [room.players[i] EXCEPT !.vote = "?"]
                                     ELSE room.players[i]]]
    IN  [room |-> filled, refused |-> FALSE, votes |-> GetVotes(filled)]

\* Variant of revealCards that reveals once anyone has voted.
RevealCardsOnAnyVote(room) ==
    IF \A i \in NonAdminIdx(room) : room.players[i].vote = NULL
    THEN [room |-> room, refused |-> TRUE, votes |-> << >>]
    ELSE [room    |-> [room EXCEPT !.revealed = TRUE],
          refused |-> FALSE,
          votes   |-> GetVotes(room)]

\* room.revealCards(): the room afterwards; refused stands for "return null".
RevealCards(room) ==
    IF ~AllVoted(room)
    THEN [room |-> room, refused |-> TRUE, votes |-> << >>]
    ELSE [room    |-> [room EXCEPT !.revealed = TRUE],
          refused |-> FALSE,
          votes   |-> GetVotes(room)]

\* Variant of reset that clears the votes and keeps the revealed flag.
ResetVotesOnly(room) ==
    [room EXCEPT
        !.players  = [i \in DOMAIN room.players |->
                        IF room.players[i].name # room.admin
                        THEN [room.players[i] EXCEPT !.vote = NULL]
                        ELSE room.players[i]]]

\* room.reset()
Reset(room) ==
    [room EXCEPT
        !.revealed = FALSE,
        !.players  = [i \in DOMAIN room.players |->
                        IF room.players[i].name # room.admin
                        THEN [room.players[i] EXCEPT !.vote = NULL]
                        ELSE room.players[i]]]

\* Variant of getState that sends the stored votes whatever revealed is.
GetStateUnredacted(code, room) ==
    [code     |-> code,
     admin    |-> room.admin,
     players  |-> [i \in DOMAIN room.players |->
                     [name |-> room.players[i].name,
                      vote |-> room.players[i].vote]],
     revealed |-> room.revealed,
     votes    |-> IF room.revealed THEN {GetVotes(room)} ELSE {}]

\* room.getState(): votes is {} for null and {mapping} for an object.
GetState(code, room) ==
    [code     |-> code,
     admin    |-> room.admin,
     players  |-> [i \in DOMAIN room.players |->
                     [name |-> room.players[i].name,
                      vote |-> IF room.revealed
                               THEN room.players[i].vote
                               ELSE IF room.players[i].vote # NULL
                                    THEN VOTED ELSE NULL]],
     revealed |-> room.revealed,
     votes    |-> IF room.revealed THEN {GetVotes(room)} ELSE {}]

\* ------------------------------------------------------------ emissions
\* Variant of socket.emit that emits to the room's group instead.
PrivateToRoom(type, socket, code, payload) ==
    [type |-> type, to |-> members[code] \cup {socket}, private |-> FALSE,
     code |-> code, payload |-> payload]

\* socket.emit(type, payload): private to one socket.
Private(type, socket, code, payload) ==
    [type |-> type, to |-> {socket}, private |-> TRUE,
     code |-> code, payload |-> payload]

\* io.to(code).emit(type, payload): to the sockets joined to the group.
Broadcast(type, group, code, payload) ==
    [type |-> type, to |-> group, private |-> FALSE,
     code |-> code, payload |-> payload]

NoPayload == {}

Intent(op, socket, code, name, vote) ==
    [op |-> op, socket |-> socket, code |-> code, name |-> name, vote |-> vote]

\* ------------------------------------------------------------------ Init
Init ==
    /\ rooms     = [c \in Codes |-> NoRoom]
    /\ order     = << >>
    /\ members   = [c \in Codes |-> {}]
    /\ connected = Sockets
    /\ last      = Intent("none", NoSocket, "", "", NULL)
    /\ out       = << >>
    /\ steps     = 0
    /\ average   = NoAverage

\* An intent reaches a handler of an open connection and is counted; no
\* server handler touches a client's display.
Deliver(socket) ==
    /\ socket \in connected
    /\ steps' = IF steps < MaxSteps THEN steps + 1 ELSE steps
    /\ UNCHANGED average

\* Variant of the createRoom handler that broadcasts the state before the
\* acknowledgement.
OnCreateRoomStateFirst(socket, userName, roomCode) ==
    /\ Deliver(socket)
    /\ last' = Intent("createRoom", socket, roomCode, userName, NULL)
    /\ IF rooms[roomCode].exists
       THEN /\ out' = << Private("error", socket, roomCode, {"Room already exists"}) >>
            /\ UNCHANGED <<rooms, order, members, connected>>
       ELSE LET room == [CreateRoomObj(userName) EXCEPT !.players[1].socketId = socket]
                group == members[roomCode] \cup {socket}
            IN  /\ rooms'   = [rooms EXCEPT ![roomCode] = room]
                /\ order'   = Append(order, roomCode)
                /\ members' = [members EXCEPT ![roomCode] = group]
                /\ out'     = << Broadcast("roomState", group, roomCode,
                                           {GetState(roomCode, room)}),
                                 Private("roomCreated", socket, roomCode,
                                         {[roomCode |-> roomCode, admin |-> userName]}) >>
                /\ UNCHANGED connected

\* Variant of the createRoom handler without the rooms.has test.
OnCreateRoomOverwrites(socket, userName, roomCode) ==
    /\ Deliver(socket)
    /\ last' = Intent("createRoom", socket, roomCode, userName, NULL)
    /\ LET room == [CreateRoomObj(userName) EXCEPT !.players[1].socketId = socket]
           group == members[roomCode] \cup {socket}
       IN  /\ rooms'   = [rooms EXCEPT ![roomCode] = room]
           /\ order'   = IF rooms[roomCode].exists THEN order
                         ELSE Append(order, roomCode)
           /\ members' = [members EXCEPT ![roomCode] = group]
           /\ out'     = << Private("roomCreated", socket, roomCode,
                                    {[roomCode |-> roomCode, admin |-> userName]}),
                            Broadcast("roomState", group, roomCode,
                                      {GetState(roomCode, room)}) >>
           /\ UNCHANGED connected

\* ------------------------------------------------- socket.on('createRoom')
OnCreateRoom(socket, userName, roomCode) ==
    /\ Deliver(socket)
    /\ last' = Intent("createRoom", socket, roomCode, userName, NULL)
    /\ IF rooms[roomCode].exists
       THEN /\ out' = << Private("error", socket, roomCode, {"Room already exists"}) >>
            /\ UNCHANGED <<rooms, order, members, connected>>
       ELSE LET room == [CreateRoomObj(userName) EXCEPT !.players[1].socketId = socket]
                group == members[roomCode] \cup {socket}
            IN  /\ rooms'   = [rooms EXCEPT ![roomCode] = room]
                /\ order'   = Append(order, roomCode)
                /\ members' = [members EXCEPT ![roomCode] = group]
                /\ out'     = << Private("roomCreated", socket, roomCode,
                                         {[roomCode |-> roomCode, admin |-> userName]}),
                                 Broadcast("roomState", group, roomCode,
                                           {GetState(roomCode, room)}) >>
                /\ UNCHANGED connected

\* Variant of the joinRoom handler without the test on the admin's name.
OnJoinRoomAnyName(socket, userName, roomCode) ==
    /\ Deliver(socket)
    /\ last' = Intent("joinRoom", socket, roomCode, userName, NULL)
    /\ IF ~rooms[roomCode].exists
       THEN /\ out' = << Private("error", socket, roomCode, {"Room does not exist"}) >>
            /\ UNCHANGED <<rooms, order, members, connected>>
       ELSE LET room  == AddPlayer(rooms[roomCode], userName, socket)
                group == members[roomCode] \cup {socket}
            IN  /\ rooms'   = [rooms EXCEPT ![roomCode] = room]
                /\ members' = [members EXCEPT ![roomCode] = group]
                /\ out'     = << Private("roomJoined", socket, roomCode,
                                         {[roomCode |-> roomCode, admin |-> room.admin]}),
                                 Broadcast("roomState", group, roomCode,
                                           {GetState(roomCode, room)}) >>
                /\ UNCHANGED <<order, connected>>

\* --------------------------------------------------- socket.on('joinRoom')
OnJoinRoom(socket, userName, roomCode) ==
    /\ Deliver(socket)
    /\ last' = Intent("joinRoom", socket, roomCode, userName, NULL)
    /\ IF ~rooms[roomCode].exists
       THEN /\ out' = << Private("error", socket, roomCode, {"Room does not exist"}) >>
            /\ UNCHANGED <<rooms, order, members, connected>>
       ELSE IF userName = rooms[roomCode].admin
       THEN /\ out' = << Private("error", socket, roomCode, {"Name already taken (admin)"}) >>
            /\ UNCHANGED <<rooms, order, members, connected>>
       ELSE LET room  == AddPlayer(rooms[roomCode], userName, socket)
                group == members[roomCode] \cup {socket}
            IN  /\ rooms'   = [rooms EXCEPT ![roomCode] = room]
                /\ members' = [members EXCEPT ![roomCode] = group]
                /\ out'     = << Private("roomJoined", socket, roomCode,
                                         {[roomCode |-> roomCode, admin |-> room.admin]}),
                                 Broadcast("roomState", group, roomCode,
                                           {GetState(roomCode, room)}) >>
                /\ UNCHANGED <<order, connected>>

\* ------------------------------------------------------- socket.on('vote')
OnVote(socket, roomCode, vote) ==
    /\ Deliver(socket)
    /\ last' = Intent("vote", socket, roomCode, "", vote)
    /\ UNCHANGED <<order, members, connected>>
    /\ LET room == rooms[roomCode]
           i    == FindIndexBySocket(room.players, socket)
       IN  /\ room.exists
           /\ i # 0 /\ room.players[i].name # room.admin
           /\ LET after == SetVote(room, room.players[i].name, vote).room
              IN  /\ rooms' = [rooms EXCEPT ![roomCode] = after]
                  /\ out'   = << Broadcast("roomState", members[roomCode], roomCode,
                                           {GetState(roomCode, after)}) >>

\* ------------------------------------------------ socket.on('revealCards')
OnRevealCards(socket, roomCode) ==
    /\ Deliver(socket)
    /\ last' = Intent("revealCards", socket, roomCode, "", NULL)
    /\ UNCHANGED <<order, members, connected>>
    /\ LET room == rooms[roomCode]
           i    == FindIndexBySocket(room.players, socket)
       IN  /\ room.exists
           /\ i # 0 /\ room.players[i].name = room.admin
           /\ LET r == RevealCards(room)
              IN  /\ rooms' = [rooms EXCEPT ![roomCode] = r.room]
                  /\ out'   = IF ~r.refused
                       THEN << Broadcast("roomState", members[roomCode], roomCode,
                                         {GetState(roomCode, r.room)}),
                               Broadcast("cardsRevealed", members[roomCode],
                                         roomCode, {r.votes}) >>
                       ELSE << Private("error", socket, roomCode,
                                {"Cannot reveal cards. Not all players have voted."}) >>

\* Variant of the resetRoom handler that accepts any bound player.
OnResetRoomAnyPlayer(socket, roomCode) ==
    /\ Deliver(socket)
    /\ last' = Intent("resetRoom", socket, roomCode, "", NULL)
    /\ UNCHANGED <<order, members, connected>>
    /\ LET room == rooms[roomCode]
           i    == FindIndexBySocket(room.players, socket)
       IN  /\ room.exists
           /\ i # 0
           /\ LET after == Reset(room)
              IN  /\ rooms' = [rooms EXCEPT ![roomCode] = after]
                  /\ out'   = << Broadcast("roomState", members[roomCode], roomCode,
                                           {GetState(roomCode, after)}),
                                 Broadcast("roomReset", members[roomCode], roomCode,
                                           NoPayload) >>

\* -------------------------------------------------- socket.on('resetRoom')
OnResetRoom(socket, roomCode) ==
    /\ Deliver(socket)
    /\ last' = Intent("resetRoom", socket, roomCode, "", NULL)
    /\ UNCHANGED <<order, members, connected>>
    /\ LET room == rooms[roomCode]
           i    == FindIndexBySocket(room.players, socket)
       IN  /\ room.exists
           /\ i # 0 /\ room.players[i].name = room.admin
           /\ LET after == Reset(room)
              IN  /\ rooms' = [rooms EXCEPT ![roomCode] = after]
                  /\ out'   = << Broadcast("roomState", members[roomCode], roomCode,
                                           {GetState(roomCode, after)}),
                                 Broadcast("roomReset", members[roomCode], roomCode,
                                           NoPayload) >>

\* Map.prototype.delete on the key order.
DeleteKey(keys, code) == SelectSeq(keys, LAMBDA k : k # code)

\* Variant of the branching below that tests for the empty room first.
AfterRemovalEmptyFirst(acc, roomCode, r, group) ==
    IF ~r.result.removed
    THEN acc
    ELSE IF Len(r.room.players) = 0
    THEN [rooms |-> [acc.rooms EXCEPT ![roomCode] = NoRoom],
          order |-> DeleteKey(acc.order, roomCode),
          out   |-> acc.out]
    ELSE IF r.result.wasAdmin
    THEN [rooms |-> [acc.rooms EXCEPT ![roomCode] = NoRoom],
          order |-> DeleteKey(acc.order, roomCode),
          out   |-> Append(acc.out, Broadcast("adminLeft", group, roomCode, NoPayload))]
    ELSE [rooms |-> [acc.rooms EXCEPT ![roomCode] = r.room],
          order |-> acc.order,
          out   |-> Append(acc.out, Broadcast("roomState", group, roomCode,
                                              {GetState(roomCode, r.room)}))]

\* Variant of the branching below that keeps the room when the admin left.
AfterRemovalKeepsRoom(acc, roomCode, r, group) ==
    IF ~r.result.removed
    THEN acc
    ELSE [rooms |-> [acc.rooms EXCEPT ![roomCode] = r.room],
          order |-> acc.order,
          out   |-> Append(acc.out,
                      IF r.result.wasAdmin
                      THEN Broadcast("adminLeft", group, roomCode, NoPayload)
                      ELSE Broadcast("roomState", group, roomCode,
                                     {GetState(roomCode, r.room)}))]

\* Variant of the branching below whose empty-room test is off by one.
AfterRemovalDropsAtOne(acc, roomCode, r, group) ==
    IF ~r.result.removed
    THEN acc
    ELSE IF r.result.wasAdmin
    THEN [rooms |-> [acc.rooms EXCEPT ![roomCode] = NoRoom],
          order |-> DeleteKey(acc.order, roomCode),
          out   |-> Append(acc.out, Broadcast("adminLeft", group, roomCode, NoPayload))]
    ELSE IF Len(r.room.players) <= 1
    THEN [rooms |-> [acc.rooms EXCEPT ![roomCode] = NoRoom],
          order |-> DeleteKey(acc.order, roomCode),
          out   |-> acc.out]
    ELSE [rooms |-> [acc.rooms EXCEPT ![roomCode] = r.room],
          order |-> acc.order,
          out   |-> Append(acc.out, Broadcast("roomState", group, roomCode,
                                              {GetState(roomCode, r.room)}))]

\* The branch taken after a successful removePlayer, shared in shape by the
\* leaveRoom and disconnect handlers: what happens to the directory entry
\* and what is emitted to the group.
\*   acc = [rooms, order, out]; r = RemovePlayer's value for this room.
AfterRemoval(acc, roomCode, r, group) ==
    IF ~r.result.removed
    THEN acc
    ELSE IF r.result.wasAdmin
    THEN [rooms |-> [acc.rooms EXCEPT ![roomCode] = NoRoom],
          order |-> DeleteKey(acc.order, roomCode),
          out   |-> Append(acc.out, Broadcast("adminLeft", group, roomCode, NoPayload))]
    ELSE IF Len(r.room.players) = 0
    THEN [rooms |-> [acc.rooms EXCEPT ![roomCode] = NoRoom],
          order |-> DeleteKey(acc.order, roomCode),
          out   |-> acc.out]
    ELSE [rooms |-> [acc.rooms EXCEPT ![roomCode] = r.room],
          order |-> acc.order,
          out   |-> Append(acc.out, Broadcast("roomState", group, roomCode,
                                              {GetState(roomCode, r.room)}))]

\* Variant of the leaveRoom handler that leaves the group and reports the
\* room's state whether or not an entry was removed.
OnLeaveRoomAlways(socket, roomCode) ==
    /\ Deliver(socket)
    /\ last' = Intent("leaveRoom", socket, roomCode, "", NULL)
    /\ UNCHANGED connected
    /\ rooms[roomCode].exists
    /\ LET r     == RemovePlayer(rooms[roomCode], socket)
           group == members[roomCode] \ {socket}
           acc   == AfterRemoval([rooms |-> rooms, order |-> order, out |-> << >>],
                                 roomCode, r, group)
       IN  /\ members' = [members EXCEPT ![roomCode] = group]
           /\ rooms'   = acc.rooms
           /\ order'   = acc.order
           /\ out'     = IF r.result.removed THEN acc.out
                         ELSE << Broadcast("roomState", group, roomCode,
                                           {GetState(roomCode, r.room)}) >>

\* -------------------------------------------------- socket.on('leaveRoom')
OnLeaveRoom(socket, roomCode) ==
    /\ Deliver(socket)
    /\ last' = Intent("leaveRoom", socket, roomCode, "", NULL)
    /\ UNCHANGED connected
    /\ rooms[roomCode].exists
    /\ LET r     == RemovePlayer(rooms[roomCode], socket)
           group == members[roomCode] \ {socket}
           acc   == AfterRemoval([rooms |-> rooms, order |-> order, out |-> << >>],
                                 roomCode, r, group)
       IN  /\ r.result.removed
           /\ members' = [members EXCEPT ![roomCode] = group]
           /\ rooms'   = acc.rooms
           /\ order'   = acc.order
           /\ out'     = acc.out

\* Variant of the loop that ends once a room has been handled for the socket.
RECURSIVE DisconnectLoopFirstRoomOnly(_, _, _, _, _)
DisconnectLoopFirstRoomOnly(acc, keys, k, socket, groups) ==
    IF k > 1 THEN acc
    ELSE IF k > Len(keys) THEN acc
    ELSE LET roomCode == keys[k]
             r        == RemovePlayer(acc.rooms[roomCode], socket)
         IN  DisconnectLoopFirstRoomOnly(AfterRemoval(acc, roomCode, r, groups[roomCode]),
                                         keys, k + 1, socket, groups)

\* rooms.forEach of the disconnect handler over the keys in Map order; the
\* socket has already left every group when the handler runs.
RECURSIVE DisconnectLoop(_, _, _, _, _)
DisconnectLoop(acc, keys, k, socket, groups) ==
    IF k > Len(keys) THEN acc
    ELSE LET roomCode == keys[k]
             r        == RemovePlayer(acc.rooms[roomCode], socket)
         IN  DisconnectLoop(AfterRemoval(acc, roomCode, r, groups[roomCode]),
                            keys, k + 1, socket, groups)

\* Variant of the disconnect handler that destroys every room of the
\* directory, whether or not the socket had an entry in it.
OnDisconnectDropsEveryRoom(socket) ==
    /\ Deliver(socket)
    /\ last' = Intent("disconnect", socket, "", "", NULL)
    /\ connected' = connected \ {socket}
    /\ members' = [c \in Codes |-> members[c] \ {socket}]
    /\ rooms'   = [c \in Codes |-> NoRoom]
    /\ order'   = << >>
    /\ out'     = [k \in DOMAIN order |->
                     Broadcast("adminLeft", members[order[k]] \ {socket},
                               order[k], NoPayload)]

\* ------------------------------------------------- socket.on('disconnect')
OnDisconnect(socket) ==
    /\ Deliver(socket)
    /\ last' = Intent("disconnect", socket, "", "", NULL)
    /\ connected' = connected \ {socket}
    /\ LET groups == [c \in Codes |-> members[c] \ {socket}]
           acc    == DisconnectLoop([rooms |-> rooms, order |-> order, out |-> << >>],
                                    order, 1, socket, groups)
       IN  /\ members' = groups
           /\ rooms'   = acc.rooms
           /\ order'   = acc.order
           /\ out'     = acc.out

\* Spec: every intent names the one code; any number of intents.
Next ==
    \/ \E s \in Sockets, n \in Names, c \in OneCode : OnCreateRoom(s, n, c)
    \/ \E s \in Sockets, n \in Names, c \in OneCode : OnJoinRoom(s, n, c)
    \/ \E s \in Sockets, c \in OneCode, v \in Votes : OnVote(s, c, v)
    \/ \E s \in Sockets, c \in OneCode : OnRevealCards(s, c)
    \/ \E s \in Sockets, c \in OneCode : OnResetRoom(s, c)
    \/ \E s \in Sockets, c \in OneCode : OnLeaveRoom(s, c)
    \/ \E s \in Sockets : OnDisconnect(s)

Spec == Init /\ [][Next]_vars

\* SpecRooms: intents name either code; at most MaxSteps intents.
NextRooms ==
    \/ \E s \in Sockets, n \in Names, c \in Codes :
          steps < MaxSteps /\ OnCreateRoom(s, n, c)
    \/ \E s \in Sockets, n \in Names, c \in Codes :
          steps < MaxSteps /\ OnJoinRoom(s, n, c)
    \/ \E s \in Sockets, c \in Codes, v \in Votes :
          steps < MaxSteps /\ OnVote(s, c, v)
    \/ \E s \in Sockets, c \in Codes :
          steps < MaxSteps /\ OnRevealCards(s, c)
    \/ \E s \in Sockets, c \in Codes :
          steps < MaxSteps /\ OnResetRoom(s, c)
    \/ \E s \in Sockets, c \in Codes :
          steps < MaxSteps /\ OnLeaveRoom(s, c)
    \/ \E s \in Sockets :
          steps < MaxSteps /\ OnDisconnect(s)

SpecRooms == Init /\ [][NextRooms]_vars

\* ===================================================================
\* The client's result display (src/public/app.js)
\* ===================================================================
\* Number(v) for the vote strings, in tenths; NotANumber stands for NaN
\* (no vote string reads as a negative number).
NotANumber == -1
NumberOf(v) ==
    CASE v = "3" -> 30
      [] v = "5" -> 50
      [] v = ""  -> 0
      [] OTHER   -> NotANumber

\* let sum = 0; for (const n of numericVotes) sum += n  (NaN is absorbing)
RECURSIVE SumOf(_, _)
SumOf(votes, names) ==
    IF names = {} THEN 0
    ELSE LET n    == CHOOSE x \in names : TRUE
             rest == SumOf(votes, names \ {n})
         IN  IF rest = NotANumber \/ NumberOf(votes[n]) = NotANumber
             THEN NotANumber
             ELSE rest + NumberOf(votes[n])

\* (x).toFixed(1) of sum / count, in tenths: the nearest tenth, the larger
\* one on a tie.
ToFixed1(sum, count) == (2 * sum + count) \div (2 * count)

\* showVoteResults(votes): the text put into the average display.
ShowVoteResults(votes) ==
    LET numericVotes == {n \in DOMAIN votes : votes[n] # "?" /\ votes[n] # NULL}
        sum          == SumOf(votes, numericVotes)
    IN  IF numericVotes = {}
        THEN [kind |-> "N/A", tenths |-> 0]
        ELSE IF sum = NotANumber
        THEN [kind |-> "NaN", tenths |-> 0]
        ELSE [kind |-> "number",
              tenths |-> ToFixed1(sum, Cardinality(numericVotes))]

\* Rooms as the server can hold them: the admin and up to two other
\* players whose votes are any string a client sent, or null.
SampleRooms ==
    LET P(n, v) == [name |-> n, vote |-> v, socketId |-> 1]
        A       == [name |-> "Alice", vote |-> NULL, socketId |-> 1]
        V       == WireTokens \cup {NULL}
    IN  {[admin |-> "Alice", players |-> ps, revealed |-> r, exists |-> TRUE] :
            ps \in {<<A>>} \cup {<<A, P("Bob", v)>> : v \in V}
                   \cup {<<A, P("Bob", v), P("Carol", w)>> : v \in V, w \in V},
            r \in BOOLEAN}

\* The events of the server that reach a client's display: the roomState
\* of any room, or the roomState and cardsRevealed of a successful reveal.
InitResults ==
    /\ rooms     = [c \in Codes |-> NoRoom]
    /\ order     = << >>
    /\ members   = [c \in Codes |-> {}]
    /\ connected = Sockets
    /\ last      = Intent("none", NoSocket, "", "", NULL)
    /\ steps     = 0
    /\ average   = NoAverage
    /\ out \in {<< Broadcast("roomState", {1}, "ABCD", {GetState("ABCD", room)}) >> :
                   room \in SampleRooms}
          \cup {<< Broadcast("roomState", {1}, "ABCD",
                              {GetState("ABCD", RevealCards(room).room)}),
                    Broadcast("cardsRevealed", {1}, "ABCD",
                              {RevealCards(room).votes}) >> :
                   room \in {x \in SampleRooms : ~RevealCards(x).refused}}

\* socket.on('cardsRevealed'): revealAllCards ends in showVoteResults(votes).
ClientCardsRevealed ==
    /\ out # << >>
    /\ out[1].type = "cardsRevealed"
    /\ average' = ShowVoteResults(CHOOSE v \in out[1].payload : TRUE)
    /\ out' = Tail(out)
    /\ last' = Intent("cardsRevealed", 1, out[1].code, "", NULL)
    /\ UNCHANGED <<rooms, order, members, connected, steps>>

\* socket.on('roomState'): updateRoomDisplay returns early when nobody but
\* the admin is in the room, and shows the results of a revealed state.
ClientRoomState ==
    /\ out # << >>
    /\ out[1].type = "roomState"
    /\ LET state   == CHOOSE p \in out[1].payload : TRUE
           players == {i \in DOMAIN state.players :
                          state.players[i].name # state.admin}
       IN  average' = IF players # {} /\ state.revealed /\ state.votes # {}
                      THEN ShowVoteResults(CHOOSE v \in state.votes : TRUE)
                      ELSE average
    /\ out' = Tail(out)
    /\ last' = Intent("roomState", 1, out[1].code, "", NULL)
    /\ UNCHANGED <<rooms, order, members, connected, steps>>

NextResults ==
    \/ ClientCardsRevealed
    \/ ClientRoomState

SpecResults == InitResults /\ [][NextResults]_vars

\* ===================================================================
\* Vocabulary of the properties
\* ===================================================================
Registered(c) == rooms[c].exists

\* The payload object carried by an emitted event.
PayloadOf(e) == CHOOSE p \in e.payload : TRUE

\* Indices of the entries of room that carry the admin's name.
AdminIdx(room) == {i \in DOMAIN room.players : room.players[i].name = room.admin}

\* Non-admin entries of room whose vote is unset.
UnsetIdx(room) == {i \in NonAdminIdx(room) : room.players[i].vote = NULL}

\* The last step emitted an event of this type.
Emitted(type) == \E k \in DOMAIN out : out[k].type = type

\* The last step was a reveal that succeeded / that was refused.
RevealSucceeded == last.op = "revealCards" /\ Emitted("cardsRevealed")
RevealRefused   == last.op = "revealCards" /\ Emitted("error")

\* ===================================================================
\* C1: the participant sequence of a room never holds two entries with
\* the same name, and a joinRoom whose name equals that of an existing
\* participant rebinds that entry's connection to the caller instead of
\* appending a second entry.
\* ===================================================================
NamesUnique(room) ==
    \A i, j \in DOMAIN room.players :
        room.players[i].name = room.players[j].name => i = j

C2_RefusedIffSomeUnset ==
    [][ last'.op = "revealCards"
          => (Emitted("error")' <=> UnsetIdx(rooms[last'.code]) # {}) ]_vars

\* C2 (amended): a reveal by the admin is refused if and only if the room
\* has no non-admin participant or at least one non-admin participant has
\* an unset vote; otherwise it succeeds and sets revealed.
C2_RefusedIffNoneOrSomeUnset ==
    [][ last'.op = "revealCards"
          => /\ Emitted("error")' <=>
                  \/ NonAdminIdx(rooms[last'.code]) = {}
                  \/ UnsetIdx(rooms[last'.code]) # {}
             /\ Emitted("error")' <=> ~Emitted("cardsRevealed")'
             /\ Emitted("cardsRevealed")' => rooms'[last'.code].revealed ]_vars

\* The admin, alone in the room, asked for a reveal and was refused.
C2_Witness ==
    /\ RevealRefused
    /\ Registered(last.code)
    /\ NonAdminIdx(rooms[last.code]) = {}

\* ===================================================================
\* C3 (as stated): in every reachable state, revealed implies that every
\* non-admin participant has a non-null vote.
\* ===================================================================
RevealedAllVoted(room) == room.revealed => UnsetIdx(room) = {}

C3_RevealedImpliesAllVoted ==
    \A c \in Codes : Registered(c) => RevealedAllVoted(rooms[c])

\* C3 (amended): every non-admin participant has a non-null vote in the
\* state a successful reveal produces, and afterwards only a vote that
\* clears with null or a joinRoom adding a participant can make a revealed
\* room hold an unset non-admin vote.
C3_AllVotedAtRevealAndBrokenOnlyByClearOrJoin ==
    [][ \A c \in Codes :
          /\ (RevealSucceeded' /\ last'.code = c)
                => (rooms'[c].revealed /\ UnsetIdx(rooms'[c]) = {})
          /\ ( /\ Registered(c) /\ RevealedAllVoted(rooms[c])
               /\ Registered(c)' /\ ~RevealedAllVoted(rooms'[c]) )
                => /\ last'.code = c
                   /\ \/ last'.op = "vote" /\ last'.vote = NULL
                      \/ /\ last'.op = "joinRoom"
                         /\ Len(rooms'[c].players) = Len(rooms[c].players) + 1
      ]_vars

\* A reveal has just succeeded in a room with two voters.
C3_Witness ==
    /\ RevealSucceeded
    /\ rooms[last.code].revealed
    /\ Cardinality(NonAdminIdx(rooms[last.code])) = 2

\* ===================================================================
\* C4: a roomState payload emitted for a room whose revealed flag is
\* false shows, for each participant, only null or the 'voted' marker
\* and has votes == null; concrete votes and the vote mapping appear
\* only in payloads of a revealed room.
\* ===================================================================
C4_UnrevealedStateIsRedacted ==
    \A k \in DOMAIN out :
        out[k].type = "roomState" =>
            LET p    == PayloadOf(out[k])
                room == rooms[out[k].code]
            IN  /\ Registered(out[k].code)
                /\ p.revealed = room.revealed
                /\ Len(p.players) = Len(room.players)
                /\ ~room.revealed =>
                      /\ p.votes = {}
                      /\ \A i \in DOMAIN p.players :
                            /\ p.players[i].vote \in {NULL, VOTED}
                            /\ p.players[i].vote = VOTED
                                  <=> room.players[i].vote # NULL
                /\ (p.votes # {} \/ \E i \in DOMAIN p.players :
                                       p.players[i].vote \in Tokens)
                      => room.revealed

\* A roomState went out for an unrevealed room in which someone has voted.
C4_Witness ==
    \E k \in DOMAIN out :
        /\ out[k].type = "roomState"
        /\ ~rooms[out[k].code].revealed
        /\ \E i \in DOMAIN rooms[out[k].code].players :
              rooms[out[k].code].players[i].vote \in Tokens

\* ===================================================================
\* C5: every registered room has exactly one participant entry with the
\* admin's name, and that entry's vote is null, whatever intents were
\* handled.
\* ===================================================================
C5_OneAdminEntryNeverVotes ==
    \A c \in Codes :
        Registered(c) =>
            /\ Cardinality(AdminIdx(rooms[c])) = 1
            /\ \A i \in AdminIdx(rooms[c]) : rooms[c].players[i].vote = NULL

\* A non-admin participant left a room whose admin's connection is also
\* bound to a second entry; the room is still registered.
C5_Witness ==
    /\ last.op = "leaveRoom"
    /\ Registered(last.code)
    /\ \E i \in NonAdminIdx(rooms[last.code]), j \in AdminIdx(rooms[last.code]) :
          rooms[last.code].players[i].socketId = rooms[last.code].players[j].socketId

\* The connection recorded on the admin entry of a registered room.
AdminSocket(room) ==
    room.players[CHOOSE i \in AdminIdx(room) : TRUE].socketId

\* The last step removed the admin's connection from the room under c:
\* a leaveRoom(c) or a disconnect of the socket bound to the admin entry.
\* (An action-level expression: last' is the intent of the step.)
RemovesAdminOf(c) ==
    /\ Registered(c)
    /\ AdminIdx(rooms[c]) # {}
    /\ last'.socket = AdminSocket(rooms[c])
    /\ \/ last'.op = "leaveRoom" /\ last'.code = c
       \/ last'.op = "disconnect"

\* ===================================================================
\* C6: whenever a leaveRoom or a disconnect removes the connection bound
\* to a room's admin, that room leaves the directory in the same step; a
\* disconnect does so for every room whose admin the connection is.
\* ===================================================================
C6_AdminRemovalDestroysRoom ==
    [][ \A c \in Codes :
          RemovesAdminOf(c) =>
              /\ ~Registered(c)'
              /\ \E k \in DOMAIN out' :
                    out'[k].type = "adminLeft" /\ out'[k].code = c
      ]_vars

\* One connection created both rooms and disconnected: both are gone.
C6_Witness ==
    /\ last.op = "disconnect"
    /\ \A c \in Codes :
          /\ ~Registered(c)
          /\ \E k \in DOMAIN out :
                out[k].type = "adminLeft" /\ out[k].code = c

\* ===================================================================
\* C7: a room leaves the directory only in a step that removes its
\* admin's connection; removing a non-admin participant, the last one
\* included, keeps the room, and no other intent destroys a room or
\* replaces it by another.
\* ===================================================================
C7_OnlyAdminRemovalDestroysRoom ==
    [][ \A c \in Codes :
          (Registered(c) /\ ~RemovesAdminOf(c)) =>
              /\ Registered(c)'
              /\ rooms'[c].admin = rooms[c].admin
              /\ rooms'[c].players[1] = rooms[c].players[1]
      ]_vars

\* The last non-admin participant left and the room is still registered
\* with the admin alone.
C7_Witness ==
    /\ last.op \in {"leaveRoom", "disconnect"}
    /\ \E c \in Codes :
          /\ Registered(c)
          /\ Len(rooms[c].players) = 1
          /\ \E k \in DOMAIN out :
                out[k].type = "roomState" /\ out[k].code = c

\* ===================================================================
\* C8: once a reveal has succeeded, revealed stays true in the room
\* until a reset is executed on it (or the room is destroyed): no vote,
\* join, leave, disconnect or refused reveal sets it back to false.
\* ===================================================================
C8_RevealedUntilReset ==
    [][ \A c \in Codes :
          (Registered(c) /\ rooms[c].revealed /\ Registered(c)')
              => \/ rooms'[c].revealed
                 \/ last'.op = "resetRoom" /\ last'.code = c
      ]_vars

\* A reveal was refused in a room that is revealed, and it still is.
C8_Witness ==
    /\ RevealRefused
    /\ Registered(last.code)
    /\ rooms[last.code].revealed

\* ===================================================================
\* C9: after a reset, revealed is false and every non-admin vote is
\* unset; a second reset right after changes nothing; and a reset keeps
\* the participant list, its order and every connection binding.
\* ===================================================================
Bindings(room) ==
    [i \in DOMAIN room.players |->
        <<room.players[i].name, room.players[i].socketId>>]

C9_ResetClearsAndIsIdempotent ==
    [][ last'.op = "resetRoom" =>
          LET c == last'.code IN
          /\ rooms'[c].exists
          /\ ~rooms'[c].revealed
          /\ \A i \in NonAdminIdx(rooms'[c]) : rooms'[c].players[i].vote = NULL
          /\ Bindings(rooms'[c]) = Bindings(rooms[c])
          /\ rooms'[c].admin = rooms[c].admin
          /\ Reset(rooms'[c]) = rooms'[c]
          /\ \A d \in Codes \ {c} : rooms'[d] = rooms[d]
      ]_vars

\* A reset has just run on a room with two non-admin participants bound
\* to different connections.
C9_Witness ==
    /\ last.op = "resetRoom" /\ Emitted("roomReset")
    /\ \E i, j \in NonAdminIdx(rooms[last.code]) :
          rooms[last.code].players[i].socketId
              # rooms[last.code].players[j].socketId

\* ===================================================================
\* C10: for every reachable room state and every connection, calling
\* removePlayer(conn) twice in a row makes the second call a no-op: it
\* returns removed = false and leaves the participant sequence unchanged.
\* ===================================================================
C10_SecondRemoveIsNoOp ==
    \A c \in Codes, s \in Sockets :
        Registered(c) =>
            LET first  == RemovePlayer(rooms[c], s)
                second == RemovePlayer(first.room, s)
            IN  /\ ~second.result.removed
                /\ second.room.players = first.room.players

\* ===================================================================
\* C11: of a leaveRoom and a disconnect of the same connection, the later
\* event changes no room and produces no broadcast, so that at most one
\* participant is removed and at most one removal broadcast is emitted on
\* behalf of the connection.  Stated for the disconnect that directly
\* follows a leaveRoom which removed a participant bound to the connection.
\* ===================================================================
C11_DisconnectAfterLeaveChangesNothing ==
    [][ ( /\ last.op = "leaveRoom"
          /\ last'.op = "disconnect"
          /\ last'.socket = last.socket )
        => (rooms' = rooms /\ out' = << >>) ]_vars

\* What the leaveRoom handler makes of the directory and emits when socket
\* leaves roomCode, and what the disconnect handler does for socket: the
\* handlers' computations as values, to compare the two from one state.
LeaveOutcome(socket, roomCode) ==
    AfterRemoval([rooms |-> rooms, order |-> order, out |-> << >>],
                 roomCode, RemovePlayer(rooms[roomCode], socket),
                 members[roomCode] \ {socket})

DisconnectOutcome(socket) ==
    DisconnectLoop([rooms |-> rooms, order |-> order, out |-> << >>],
                   order, 1, socket, [c \in Codes |-> members[c] \ {socket}])

\* Rooms that hold an entry bound to socket.
RoomsOf(socket) ==
    {c \in Codes : Registered(c) /\ FindIndexBySocket(rooms[c].players, socket) # 0}

\* ===================================================================
\* C12: for a connection bound in exactly the room R, its disconnect
\* yields the same directory, the same state of R and the same
\* room-scoped events as its leaveRoom(R) from the same state: each of
\* the two steps produces what the other handler computes there.
\* ===================================================================
C12_DisconnectEqualsLeave ==
    [][ \A c \in Codes :
          RoomsOf(last'.socket) = {c} =>
            /\ (last'.op = "leaveRoom" /\ last'.code = c) =>
                  LET o == DisconnectOutcome(last'.socket)
                  IN  rooms' = o.rooms /\ order' = o.order /\ out' = o.out
            /\ last'.op = "disconnect" =>
                  LET o == LeaveOutcome(last'.socket, c)
                  IN  rooms' = o.rooms /\ order' = o.order /\ out' = o.out
      ]_vars

\* A connection bound in the second room of the Map only (the first room
\* belongs to others) has just disconnected, and the room goes on.
C12_Witness ==
    /\ last.op = "disconnect"
    /\ Len(order) = 2
    /\ Len(out) = 1
    /\ out[1].type = "roomState"
    /\ out[1].code = order[2]

\* ===================================================================
\* C13: after the disconnect of a connection has been processed, no room
\* of the directory holds a participant whose socketId is that
\* connection, whatever createRoom/joinRoom intents it issued before.
\* ===================================================================
C13_NoEntryOfClosedConnection ==
    \A c \in Codes :
        Registered(c) =>
            \A i \in DOMAIN rooms[c].players :
                rooms[c].players[i].socketId \in connected

\* ===================================================================
\* C14: in every reachable state each connection is bound to at most one
\* (room, participant) pair, in different rooms as well as in one room.
\* ===================================================================
BindingsOf(socket) ==
    {<<c, i>> \in Codes \X (1 .. Cardinality(Names)) :
        /\ Registered(c)
        /\ i \in DOMAIN rooms[c].players
        /\ rooms[c].players[i].socketId = socket}

C14_ConnectionBoundAtMostOnce ==
    \A s \in Sockets : Cardinality(BindingsOf(s)) <= 1

\* The socket is the one recorded on the admin entry of the room under c.
IsAdminSocketOf(s, c) ==
    /\ Registered(c)
    /\ AdminIdx(rooms[c]) # {}
    /\ s = AdminSocket(rooms[c])

\* The room under c had the votes of its non-admin participants cleared
\* in the step (some vote was set before, none is after).
VotesReset(c) ==
    /\ UnsetIdx(rooms[c]) # NonAdminIdx(rooms[c])
    /\ Len(rooms'[c].players) = Len(rooms[c].players)
    /\ UnsetIdx(rooms'[c]) = NonAdminIdx(rooms'[c])
    /\ Cardinality(NonAdminIdx(rooms[c]) \ UnsetIdx(rooms[c])) > 1

\* ===================================================================
\* C15: a revealCards or resetRoom intent from a connection that is not
\* the one bound to the named room's admin changes no state and emits no
\* event: its handler takes no step, every revealCards or resetRoom step
\* being one of the admin's connection.  Hence the revealed flag of a room
\* changes, and its votes are reset, only in a revealCards or resetRoom
\* step of the admin's own connection.
\* ===================================================================
C15_OnlyAdminRevealsAndResets ==
    [][ \A c \in Codes :
          /\ (last'.op \in {"revealCards", "resetRoom"} /\ last'.code = c)
               => IsAdminSocketOf(last'.socket, c)
          /\ ( /\ Registered(c) /\ rooms'[c].exists
               /\ \/ rooms'[c].revealed # rooms[c].revealed
                  \/ VotesReset(c) )
             => /\ last'.op \in {"revealCards", "resetRoom"}
                /\ last'.code = c
                /\ IsAdminSocketOf(last'.socket, c)
      ]_vars

\* A revealed room holds a connected participant who is not the admin and
\* whose revealCards and resetRoom are therefore ignored.
C15_Witness ==
    \E c \in Codes :
        /\ Registered(c)
        /\ rooms[c].revealed
        /\ \E i \in NonAdminIdx(rooms[c]) :
              /\ rooms[c].players[i].socketId \in connected
              /\ ~IsAdminSocketOf(rooms[c].players[i].socketId, c)

\* The message the step's intent must be answered with when it meets one
\* of the four failure conditions in the state before the step, "" when
\* it meets none.  (An action-level expression over last'.)
FailureMessage ==
    LET c == last'.code IN
    IF last'.op = "createRoom" /\ Registered(c)
        THEN "Room already exists"
    ELSE IF last'.op = "joinRoom" /\ ~Registered(c)
        THEN "Room does not exist"
    ELSE IF last'.op = "joinRoom" /\ last'.name = rooms[c].admin
        THEN "Name already taken (admin)"
    ELSE IF last'.op = "revealCards" /\ UnsetIdx(rooms[c]) # {}
        THEN "Cannot reveal cards. Not all players have voted."
    ELSE ""

\* ===================================================================
\* C16: on each of the four failure conditions (create on a used code,
\* join of a non-existent room, join with the admin's name, reveal with
\* incomplete votes) exactly one error message is sent, to the
\* originating connection only, and the intent broadcasts no
\* room-scoped event.
\* ===================================================================
C16_FailureIsOnePrivateError ==
    [][ FailureMessage # "" =>
          /\ Len(out') = 1
          /\ out'[1].type = "error"
          /\ out'[1].private
          /\ out'[1].to = {last'.socket}
          /\ out'[1].payload = {FailureMessage}
      ]_vars

\* A join under the admin's name was answered with an error while other
\* connections were in the room's group.
C16_Witness ==
    /\ last.op = "joinRoom"
    /\ Registered(last.code)
    /\ last.name = rooms[last.code].admin
    /\ Emitted("error")
    /\ members[last.code] \ {last.socket} # {}

\* The keys of the Map, in order, are the registered codes, each once.
OneRoomPerCode(keys, rm) ==
    /\ \A i, j \in DOMAIN keys : keys[i] = keys[j] => i = j
    /\ {keys[i] : i \in DOMAIN keys} = {c \in Codes : rm[c].exists}

\* ===================================================================
\* C17: the directory holds at most one room per code: a createRoom for
\* a code that is already mapped fails with an error, leaves the
\* existing room (admin, participants, votes, bindings, revealed flag)
\* unchanged and adds the caller neither to its participants nor to its
\* broadcast group.
\* ===================================================================
C17_CreateOnUsedCodeFails ==
    [][ /\ OneRoomPerCode(order', rooms')
        /\ (last'.op = "createRoom" /\ Registered(last'.code)) =>
              /\ rooms' = rooms
              /\ order' = order
              /\ members' = members
              /\ Len(out') = 1 /\ out'[1].type = "error"
      ]_vars

\* A connection outside the room's group asked to create a room under
\* the code of a revealed room and was refused.
C17_Witness ==
    /\ last.op = "createRoom"
    /\ Emitted("error")
    /\ Registered(last.code)
    /\ rooms[last.code].revealed
    /\ last.socket \notin members[last.code]

\* ===================================================================
\* C18: a joinRoom whose name equals the room's admin name is rejected
\* in every room state: the participant sequence, all votes, the
\* revealed flag and the admin's binding are unchanged, the caller is
\* not added to the room's broadcast group, and the caller gets an
\* error.
\* ===================================================================
C18_JoinWithAdminNameRejected ==
    [][ ( /\ last'.op = "joinRoom"
          /\ Registered(last'.code)
          /\ last'.name = rooms[last'.code].admin )
        => /\ rooms' = rooms
           /\ order' = order
           /\ members' = members
           /\ Len(out') = 1 /\ out'[1].type = "error"
           /\ out'[1].to = {last'.socket}
      ]_vars

\* A connection outside the group tried the admin's name on a revealed
\* room and was refused; the admin's entry is still bound to another
\* connection.
C18_Witness ==
    /\ last.op = "joinRoom"
    /\ Emitted("error")
    /\ Registered(last.code)
    /\ last.name = rooms[last.code].admin
    /\ rooms[last.code].revealed
    /\ last.socket \notin members[last.code]
    /\ AdminSocket(rooms[last.code]) # last.socket

\* ===================================================================
\* C19: reveal never modifies a participant's vote (a missing vote is
\* not filled with the escape token): a revealCards step leaves the
\* participant sequence as it was, and a refused reveal leaves the
\* whole room, the revealed flag included, and the directory unchanged.
\* ===================================================================
C19_RevealKeepsVotes ==
    [][ last'.op = "revealCards" =>
          /\ Registered(last'.code)
          /\ rooms'[last'.code].exists
          /\ rooms'[last'.code].players = rooms[last'.code].players
          /\ rooms'[last'.code].admin = rooms[last'.code].admin
          /\ order' = order
          /\ members' = members
          /\ RevealRefused' => rooms' = rooms
      ]_vars

\* A reveal was refused while one participant had voted and another had
\* not.
C19_Witness ==
    /\ RevealRefused
    /\ Registered(last.code)
    /\ \E i, j \in NonAdminIdx(rooms[last.code]) :
          /\ rooms[last.code].players[i].vote = NULL
          /\ rooms[last.code].players[j].vote # NULL

\* The connection is bound to no entry of the room mapped by the code,
\* or the code maps no room.
Unbound(s, c) ==
    \/ ~Registered(c)
    \/ FindIndexBySocket(rooms[c].players, s) = 0

\* ===================================================================
\* C20: a vote, revealCards, resetRoom or leaveRoom intent that names a
\* code with no room in the directory, or that comes from a connection
\* bound to no participant of the named room, changes no room and no
\* directory entry and emits no event: the server takes no step for it.
\* ===================================================================
C20_UnboundIntentIsIgnored ==
    \A s \in connected : \A c \in Codes :
        Unbound(s, c) =>
            /\ \A v \in Votes : ~ENABLED OnVote(s, c, v)
            /\ ~ENABLED OnRevealCards(s, c)
            /\ ~ENABLED OnResetRoom(s, c)
            /\ ~ENABLED OnLeaveRoom(s, c)

\* A connection that once joined the room has lost its entry to a
\* rebinding and is still in the room's group, while the room holds a
\* vote and is revealed.
C20_Witness ==
    \E c \in Codes : \E s \in connected :
        /\ Registered(c)
        /\ Unbound(s, c)
        /\ s \in members[c]
        /\ rooms[c].revealed
        /\ \E i \in NonAdminIdx(rooms[c]) : rooms[c].players[i].vote # NULL

\* ===================================================================
\* C21: a joinRoom that rebinds an existing participant changes only
\* that participant's socketId: its vote, its position, every other
\* participant, the admin and the revealed flag are unchanged.
\* ===================================================================
C21_RebindChangesOnlyTheBinding ==
    [][ \A c \in Codes :
          ( /\ last'.op = "joinRoom" /\ last'.code = c
            /\ Registered(c)
            /\ FindIndexByName(rooms[c].players, last'.name) # 0
            /\ last'.name # rooms[c].admin )
          => LET i == FindIndexByName(rooms[c].players, last'.name)
             IN  /\ rooms'[c] = [rooms[c] EXCEPT !.players[i].socketId = last'.socket]
                 /\ rooms'[c].players[i].vote = rooms[c].players[i].vote
                 /\ rooms'[c].revealed = rooms[c].revealed
                 /\ Len(rooms'[c].players) = Len(rooms[c].players)
      ]_vars

\* A join has just rebound an entry that holds a vote in a revealed
\* room; the connection it was bound to before is still in the group
\* and has no entry any more.
C21_Witness ==
    /\ last.op = "joinRoom"
    /\ Emitted("roomJoined")
    /\ rooms[last.code].revealed
    /\ \E i \in NonAdminIdx(rooms[last.code]) :
          /\ rooms[last.code].players[i].name = last.name
          /\ rooms[last.code].players[i].socketId = last.socket
          /\ rooms[last.code].players[i].vote # NULL
    /\ \E s \in members[last.code] \ {last.socket} : Unbound(s, last.code)

\* ===================================================================
\* C22: a vote intent changes at most the vote of a non-admin
\* participant bound to the calling connection in the named room: it
\* never changes another participant's vote, the participant list, a
\* binding, the revealed flag, the directory or a group, and no vote
\* step comes from the admin's connection.
\* ===================================================================
C22_VoteChangesOnlyTheCallersVote ==
    [][ \A c \in Codes :
          (last'.op = "vote" /\ last'.code = c) =>
             /\ Registered(c)
             /\ last'.socket # AdminSocket(rooms[c])
             /\ \E i \in NonAdminIdx(rooms[c]) :
                   /\ rooms[c].players[i].socketId = last'.socket
                   /\ rooms' = [rooms EXCEPT ![c].players[i].vote = last'.vote]
             /\ order' = order
             /\ members' = members
      ]_vars

\* A vote has just been stored in a room with two non-admin
\* participants bound to different connections; the other participant
\* holds a different vote.
C22_Witness ==
    /\ last.op = "vote"
    /\ \E i, j \in NonAdminIdx(rooms[last.code]) :
          /\ rooms[last.code].players[i].socketId = last.socket
          /\ rooms[last.code].players[i].vote = last.vote
          /\ rooms[last.code].players[j].socketId # last.socket
          /\ rooms[last.code].players[j].vote \notin {last.vote, NULL}

\* The name -> vote mapping of the non-admin entries of room.
NonAdminVotes(room) ==
    [n \in {room.players[i].name : i \in NonAdminIdx(room)} |->
        room.players[CHOOSE i \in NonAdminIdx(room) : room.players[i].name = n].vote]

\* ===================================================================
\* C23: a successful reveal emits to the room's group first a roomState
\* with revealed = true and then a cardsRevealed whose mapping has
\* exactly the non-admin participants as keys and, for each, the vote
\* it holds in the room state the reveal acted on; handlers run one
\* after the other, so under every interleaving with vote intents the
\* mapping is that of one single room state, the same before and after
\* the reveal step.
\* ===================================================================
C23_RevealEmitsStateThenVotes ==
    [][ \A c \in Codes :
          (RevealSucceeded' /\ last'.code = c) =>
             /\ Len(out') = 2
             /\ out'[1].type = "roomState" /\ ~out'[1].private
             /\ out'[1].to = members[c]
             /\ PayloadOf(out'[1]).revealed
             /\ out'[1].payload = {GetState(c, rooms'[c])}
             /\ out'[2].type = "cardsRevealed" /\ ~out'[2].private
             /\ out'[2].to = members[c]
             /\ out'[2].payload = {NonAdminVotes(rooms[c])}
             /\ NonAdminVotes(rooms'[c]) = NonAdminVotes(rooms[c])
             /\ \A n \in DOMAIN NonAdminVotes(rooms[c]) :
                   NonAdminVotes(rooms[c])[n] # NULL
      ]_vars

\* A reveal has just succeeded in a room where two participants hold
\* different votes; both tokens appear in the emitted mapping.
C23_Witness ==
    /\ RevealSucceeded
    /\ Len(out) = 2
    /\ \E n1, n2 \in DOMAIN PayloadOf(out[2]) :
          /\ PayloadOf(out[2])[n1] = "5"
          /\ PayloadOf(out[2])[n2] = "?"

\* ===================================================================
\* C24: when a room is destroyed because its admin left or
\* disconnected, every open connection that is at that moment bound to
\* a remaining participant of the room receives the adminLeft event of
\* that room.
\* ===================================================================
C24_RemainingBoundReceiveAdminLeft ==
    [][ \A c \in Codes :
          RemovesAdminOf(c) =>
             \A i \in NonAdminIdx(rooms[c]) :
                rooms[c].players[i].socketId \in connected' =>
                   \E k \in DOMAIN out' :
                      /\ out'[k].type = "adminLeft"
                      /\ out'[k].code = c
                      /\ rooms[c].players[i].socketId \in out'[k].to
      ]_vars

\* The events of the last step that are private to one socket.
PrivateIdx(o) == {k \in DOMAIN o : o[k].private}

\* ===================================================================
\* C25: every createRoom intent produces exactly one private reply to
\* the caller, roomCreated if the code was unused and error otherwise;
\* every joinRoom intent produces exactly one private reply, roomJoined
\* if the room exists and the name differs from the admin's and error
\* otherwise; on success one roomState broadcast to the room's group,
\* the caller included, follows the acknowledgement, and on failure
\* nothing else is emitted.
\* ===================================================================
C25_OnePrivateReplyThenState ==
    [][ \A c \in Codes :
          (last'.op \in {"createRoom", "joinRoom"} /\ last'.code = c) =>
             LET ok  == IF last'.op = "createRoom"
                        THEN ~Registered(c)
                        ELSE Registered(c) /\ last'.name # rooms[c].admin
                 ack == IF last'.op = "createRoom" THEN "roomCreated" ELSE "roomJoined"
             IN  /\ PrivateIdx(out') = {1}
                 /\ out'[1].to = {last'.socket}
                 /\ out'[1].type = IF ok THEN ack ELSE "error"
                 /\ ok  => /\ Len(out') = 2
                           /\ out'[2].type = "roomState"
                           /\ out'[2].code = c
                           /\ last'.socket \in out'[2].to
                           /\ out'[2].payload = {GetState(c, rooms'[c])}
                           /\ PayloadOf(out'[1]) = [roomCode |-> c, admin |-> rooms'[c].admin]
                 /\ ~ok => Len(out') = 1
      ]_vars

\* A join has just been acknowledged and its roomState went to the
\* caller and to at least one other connection.
C25_Witness ==
    /\ last.op = "joinRoom"
    /\ Len(out) = 2
    /\ out[1].type = "roomJoined"
    /\ out[2].type = "roomState"
    /\ out[2].to \ {last.socket} # {}

\* ===================================================================
\* C26: immediately after a successful createRoom(code, name) the
\* directory maps code to a room whose admin is name, whose only
\* participant is the admin with vote unset and socketId equal to the
\* creating connection, and whose revealed flag is false; the code is
\* the last key of the directory.
\* ===================================================================
C26_CreatedRoomIsFresh ==
    [][ \A c \in Codes :
          (last'.op = "createRoom" /\ last'.code = c /\ ~Registered(c)) =>
             /\ rooms'[c].exists
             /\ rooms'[c].admin = last'.name
             /\ rooms'[c].players =
                   << [name |-> last'.name, vote |-> NULL, socketId |-> last'.socket] >>
             /\ rooms'[c].revealed = FALSE
             /\ order' = Append(order, c)
             /\ \A d \in Codes \ {c} : rooms'[d] = rooms[d]
      ]_vars

\* A room has just been created under a code whose group still holds a
\* connection of an earlier room of that code.
C26_Witness ==
    /\ last.op = "createRoom"
    /\ Emitted("roomCreated")
    /\ Len(rooms[last.code].players) = 1
    /\ members[last.code] \ {last.socket} # {}

\* ===================================================================
\* C27: every intent that names room code X (create, join, vote,
\* reveal, reset, leave) leaves every room registered under a different
\* code, and that code's group, unchanged; a disconnect of a connection
\* leaves unchanged every room in which no participant is bound to it.
\* ===================================================================
C27_OtherRoomsUntouched ==
    [][ \A c \in Codes :
          /\ ( /\ last'.op \in {"createRoom", "joinRoom", "vote",
                                "revealCards", "resetRoom", "leaveRoom"}
               /\ last'.code # c )
             => /\ rooms'[c] = rooms[c]
                /\ members'[c] = members[c]
                /\ \A k \in DOMAIN out' : out'[k].code # c
          /\ ( /\ last'.op = "disconnect"
               /\ FindIndexBySocket(rooms[c].players, last'.socket) = 0 )
             => /\ rooms'[c] = rooms[c]
                /\ \A k \in DOMAIN out' : out'[k].code # c
      ]_vars

\* A connection that administered one room has just disconnected and
\* that room is gone, while the other room still has its admin and a
\* second participant.
C27_Witness ==
    /\ last.op = "disconnect"
    /\ Emitted("adminLeft")
    /\ \E c \in Codes :
          /\ Registered(c)
          /\ Len(rooms[c].players) = 2
          /\ \A k \in DOMAIN out : out[k].code # c

\* The vote held in room by the entry named n (names are unique, C1).
VoteOf(room, n) == room.players[FindIndexByName(room.players, n)].vote

\* The names of the non-admin entries of room.
NonAdminNames(room) == {room.players[i].name : i \in NonAdminIdx(room)}

\* The names of the non-admin entries of room bound to socket s.
NamesBoundTo(room, s) ==
    {room.players[i].name : i \in {j \in NonAdminIdx(room) : room.players[j].socketId = s}}

\* ===================================================================
\* C28: no vote is lost: each non-admin participant's vote is the value
\* of the most recent vote intent accepted from a connection bound to
\* it since the participant was added or the room was last reset, and
\* unset if there was none.  Step by step: an accepted vote is stored
\* on every non-admin entry bound to the caller, a reset clears every
\* vote, a new entry starts unset, and nothing else changes a vote.
\* ===================================================================
C28_NoVoteLost ==
    [][ \A c \in Codes :
          (Registered(c) /\ rooms'[c].exists) =>
            /\ \A n \in NonAdminNames(rooms'[c]) \ NonAdminNames(rooms[c]) :
                  VoteOf(rooms'[c], n) = NULL
            /\ \A n \in NonAdminNames(rooms'[c]) \cap NonAdminNames(rooms[c]) :
                  VoteOf(rooms'[c], n) =
                     IF /\ last'.op = "vote" /\ last'.code = c
                        /\ n \in NamesBoundTo(rooms[c], last'.socket)
                     THEN last'.vote
                     ELSE IF last'.op = "resetRoom" /\ last'.code = c
                     THEN NULL
                     ELSE VoteOf(rooms[c], n)
      ]_vars

\* The names of the entries of room, in sequence order.
NameSeq(room) == [i \in DOMAIN room.players |-> room.players[i].name]

\* The names of all entries of room.
AllNames(room) == {room.players[i].name : i \in DOMAIN room.players}

\* ===================================================================
\* C29: the participant sequence of a room is always ordered by the
\* time each present participant was first added: in every step the
\* participants that stay keep their relative order (a rebind does not
\* move an entry, a removal does not reorder the others) and a newly
\* added participant is placed after all of them.
\* ===================================================================
C29_SequenceKeepsJoinOrder ==
    [][ \A c \in Codes :
          (Registered(c) /\ rooms'[c].exists) =>
            LET old   == NameSeq(rooms[c])
                new   == NameSeq(rooms'[c])
                stays == SelectSeq(old, LAMBDA n : n \in AllNames(rooms'[c]))
                added == SelectSeq(new, LAMBDA n : n \notin AllNames(rooms[c]))
            IN  /\ new = stays \o added
                /\ (last'.op = "joinRoom" /\ last'.code = c
                      /\ last'.name \in AllNames(rooms[c]))
                      => new = old
      ]_vars

\* A join has just rebound the middle entry of three (it holds a vote,
\* so it was not added by this join) and it is still in the middle.
C29_Witness ==
    /\ last.op = "joinRoom"
    /\ Emitted("roomJoined")
    /\ Len(rooms[last.code].players) = 3
    /\ rooms[last.code].players[2].name = last.name
    /\ rooms[last.code].players[2].socketId = last.socket
    /\ rooms[last.code].players[2].vote # NULL
    /\ rooms[last.code].players[3].socketId # last.socket

\* ===================================================================
\* C30: every connection that receives a room-scoped event (roomState,
\* cardsRevealed, roomReset) for a room is, at the moment of emission,
\* the socketId of a participant of that room: neither a connection
\* whose participant was rebound to another connection nor one left
\* over from a destroyed room of the same code receives it.
\* ===================================================================
C30_RecipientsAreBound ==
    [][ \A k \in DOMAIN out' :
          out'[k].type \in {"roomState", "cardsRevealed", "roomReset"} =>
             \A s \in out'[k].to :
                \E i \in DOMAIN rooms'[out'[k].code].players :
                   rooms'[out'[k].code].players[i].socketId = s
      ]_vars

\* ===================================================================
\* C31: after a successful reveal and until the next reset the revealed
\* votes are frozen: in every step that starts and ends with the room
\* revealed, each participant that stays holds the vote it held before
\* (hence the one carried by the cardsRevealed mapping of the reveal),
\* and every roomState emitted for the room shows that vote.
\* ===================================================================
C31_RevealedVotesFrozen ==
    [][ \A c \in Codes :
          ( /\ Registered(c) /\ rooms[c].revealed
            /\ rooms'[c].exists /\ rooms'[c].revealed )
          => /\ \A n \in NonAdminNames(rooms[c]) \cap NonAdminNames(rooms'[c]) :
                   VoteOf(rooms'[c], n) = VoteOf(rooms[c], n)
             /\ \A k \in DOMAIN out' :
                   (out'[k].type = "roomState" /\ out'[k].code = c) =>
                      \A i \in DOMAIN PayloadOf(out'[k]).players :
                         LET p == PayloadOf(out'[k]).players[i]
                         IN  p.name \in NonAdminNames(rooms[c]) =>
                                p.vote = VoteOf(rooms[c], p.name)
      ]_vars

\* ===================================================================
\* C32: no room is ever destroyed silently: every room registered in
\* the directory has at least one participant, its admin among them, so
\* the "room now empty" branch of leaveRoom and disconnect is never
\* taken, and every removal of a room from the directory comes with an
\* adminLeft emission for that room in the same step.
\* ===================================================================
C32_NoSilentDestruction ==
    [][ \A c \in Codes :
          /\ rooms'[c].exists =>
                /\ Len(rooms'[c].players) >= 1
                /\ AdminIdx(rooms'[c]) # {}
          /\ (Registered(c) /\ ~rooms'[c].exists) =>
                /\ last'.op \in {"leaveRoom", "disconnect"}
                /\ \E k \in DOMAIN out' :
                      out'[k].type = "adminLeft" /\ out'[k].code = c
      ]_vars

\* The admin has just left a room that still had another participant:
\* the room is gone and its adminLeft went to a non-empty group.
C32_Witness ==
    /\ last.op = "leaveRoom"
    /\ ~Registered(last.code)
    /\ Len(out) = 1
    /\ out[1].type = "adminLeft"
    /\ out[1].to # {}

\* ===================================================================
\* C33: for the whole lifetime of a room the admin entry's socketId is
\* the connection that created the room: it is set by createRoom, no
\* later step changes it (no joinRoom rebinds the admin entry, so the
\* admin cannot reconnect), that connection stays open as long as the
\* room exists, and reveal and reset are executed for that connection
\* only.
\* ===================================================================
C33_AdminBindingIsTheCreator ==
    [][ \A c \in Codes :
          /\ rooms'[c].exists =>
                /\ Cardinality(AdminIdx(rooms'[c])) = 1
                /\ AdminSocket(rooms'[c]) \in connected'
                /\ IF Registered(c)
                   THEN /\ AdminSocket(rooms'[c]) = AdminSocket(rooms[c])
                        /\ rooms'[c].admin = rooms[c].admin
                   ELSE /\ last'.op = "createRoom" /\ last'.code = c
                        /\ AdminSocket(rooms'[c]) = last'.socket
          /\ (last'.op \in {"revealCards", "resetRoom"} /\ last'.code = c) =>
                last'.socket = AdminSocket(rooms[c])
      ]_vars

\* The admin's connection has just reset a room whose two other
\* participants are bound to the two other connections.
C33_Witness ==
    /\ last.op = "resetRoom"
    /\ Registered(last.code)
    /\ last.socket = AdminSocket(rooms[last.code])
    /\ Len(rooms[last.code].players) = 3
    /\ {rooms[last.code].players[i].socketId : i \in 1 .. 3} = Sockets

\* ===================================================================
\* C35: in every room registered in the directory the admin entry is
\* the first element of the participant sequence, so the first-match
\* lookup by connection (vote, revealCards, resetRoom, removePlayer)
\* resolves to the admin entry whenever the calling connection is the
\* admin's, even when that connection is bound to a later entry too.
\* ===================================================================
C35_AdminEntryIsFirst ==
    \A c \in Codes :
        Registered(c) =>
            /\ Len(rooms[c].players) >= 1
            /\ rooms[c].players[1].name = rooms[c].admin
            /\ AdminIdx(rooms[c]) = {1}
            /\ FindIndexBySocket(rooms[c].players, rooms[c].players[1].socketId) = 1

\* The admin's connection is also bound to the last of three entries.
C35_Witness ==
    \E c \in Codes :
        /\ Registered(c)
        /\ Len(rooms[c].players) = 3
        /\ rooms[c].players[3].socketId = rooms[c].players[1].socketId
        /\ rooms[c].players[2].socketId # rooms[c].players[1].socketId

\* A vote string that is a numeric token.
IsNumericToken(v) == v \in {"3", "5"}

\* The votes the client is about to pass to showVoteResults, if any.
VotesToShow ==
    IF out = << >> THEN {}
    ELSE IF out[1].type = "cardsRevealed" THEN out[1].payload
    ELSE IF /\ out[1].type = "roomState"
            /\ PayloadOf(out[1]).revealed
            /\ \E i \in DOMAIN PayloadOf(out[1]).players :
                  PayloadOf(out[1]).players[i].name # PayloadOf(out[1]).admin
    THEN PayloadOf(out[1]).votes
    ELSE {}

\* ===================================================================
\* C34: the revealed votes that enter the displayed average are the
\* numeric tokens only (the escape token '?', an unset vote and any
\* other non-numeric string are left out): the display is 'N/A' exactly
\* when no numeric vote remains and otherwise the mean of the numeric
\* votes to one decimal.
\* ===================================================================
C34_AverageOfNumericVotesOnly ==
    [][ \A votes \in VotesToShow :
          LET numeric == {n \in DOMAIN votes : IsNumericToken(votes[n])}
          IN  /\ average'.kind = "N/A" <=> numeric = {}
              /\ numeric # {} =>
                    average' = [kind   |-> "number",
                                tenths |-> ToFixed1(SumOf(votes, numeric),
                                                    Cardinality(numeric))]
      ]_vars

====
